---- MODULE Spec2Model ----
(***************************************************************************)
(* A model of the TheTVDB client in tvdb.go: the by-ID lookup              *)
(* (Tvdb.GetSeriesById), the scrape search resolver (Tvdb.SearchSeries),   *)
(* the detail fetcher (Series.GetDetail) and its list-level variant        *)
(* (SeriesList.GetDetail).  The remote provider is the environment: every  *)
(* HTTP exchange is a nondeterministic choice of the response.             *)
(***************************************************************************)
EXTENDS Integers, Sequences, FiniteSets

(***************************************************************************)
(* Bounds of the model.                                                    *)
(***************************************************************************)
\* uint64 scaled down: identifiers range over 1..MaxUint, and a digit token
\* whose value exceeds MaxUint overflows strconv.ParseUint.
MaxUint == 3
\* longest list of anchors matched in a search page
MaxAnchors == 3
\* largest maxResults a caller passes (the smallest is -1)
MaxMaxResults == 3
\* longest SeriesList a by-ID response is parsed into, when called directly
MaxSeriesInResponse == 3
\* longest episode list of a detail response
MaxEpisodes == 3
\* number of Series.GetDetail calls made on one Series
MaxCalls == 2
\* longest SeriesList handed to SeriesList.GetDetail
MaxSeries == 3
\* longest episode list of a detail response in the list-level run
MaxListEpisodes == 1

VARIABLES
    pc,             \* position of the running call: "idle", "loop", "returned"
    err,            \* the named result err of the running call
    seriesList,     \* SearchSeries: the named result; SeriesList.GetDetail: the receiver
    groups,         \* SearchSeries: the digit tokens of the regex matches, in page order
    maxResults,     \* SearchSeries: the caller's bound
    groupIdx,       \* SearchSeries: index of the next match the loop visits
    doneSeriesIds,  \* SearchSeries: identifiers already appended
    lookups,        \* SearchSeries: the by-ID requests issued so far, with their outcome
    id,             \* GetSeriesById (called directly): the identifier asked for
    response,       \* GetSeriesById (called directly): what the provider answers
    ret,            \* GetSeriesById (called directly): the pair (series, err) returned
    series,         \* Series.GetDetail: the receiver
    calls,          \* Series.GetDetail: the responses received so far
    seriesIndex,    \* SeriesList.GetDetail: index of the next entry fetched
    requests        \* SeriesList.GetDetail: the detail requests issued so far

vars == <<pc, err, seriesList, groups, maxResults, groupIdx, doneSeriesIds,
          lookups, id, response, ret, series, calls, seriesIndex, requests>>

searchVars == <<groups, maxResults, groupIdx, doneSeriesIds, lookups>>
byIdVars == <<id, response, ret>>
detailVars == <<series, calls>>
listVars == <<seriesIndex, requests>>

(***************************************************************************)
(* Values.                                                                 *)
(***************************************************************************)
\* error values: nil, a failed http.Get, a failed ioutil.ReadAll, an
\* *xml.SyntaxError from xml.Unmarshal, any other error from xml.Unmarshal
\* (io.EOF on an empty body, a field that does not convert), the
\* "incorrect number of series" error, a strconv range error
Nil == "nil"
ErrGet == "http.Get"
ErrRead == "ReadAll"
ErrSyntax == "xml.SyntaxError"
ErrDecode == "xml.other"
ErrCardinality == "incorrect number of series"
ErrRange == "strconv.ErrRange"

SeriesIds == 1..MaxUint
SeasonNumbers == {1, 2}

\* Series.Seasons: a nil map, or a map from season number to episode sequence
NilSeasons == [isNil |-> TRUE, m |-> <<>>]
EmptySeasons == [isNil |-> FALSE, m |-> <<>>]

\* Series{}: the zero value
ZeroSeries == [Id |-> 0, Seasons |-> NilSeasons]
\* a Series decoded from XML: Seasons has no XML form and stays nil
DecodedSeries(n) == [Id |-> n, Seasons |-> NilSeasons]

RECURSIVE SeqsUpTo(_, _)
SeqsUpTo(S, n) ==
    IF n = 0 THEN {<<>>}
    ELSE LET shorter == SeqsUpTo(S, n - 1)
         IN  shorter \cup {Append(s, x) : s \in {t \in shorter : Len(t) = n - 1}, x \in S}

Range(s) == {s[i] : i \in 1..Len(s)}

(***************************************************************************)
(* Tvdb.GetSeriesById                                                      *)
(***************************************************************************)
\* what the provider can answer to a by-ID request: a request that fails, a
\* body that cannot be read, a body xml.Unmarshal rejects, or a SeriesList
ErrorKinds == {ErrGet, ErrRead, ErrSyntax, ErrDecode}
ErrorResponses == {[kind |-> k, list |-> <<>>] : k \in ErrorKinds}
ParsedResponse(l) == [kind |-> "parsed", list |-> l]
ByIdResponses ==
    ErrorResponses \cup
    {ParsedResponse(l) : l \in SeqsUpTo({DecodedSeries(n) : n \in SeriesIds},
                                         MaxSeriesInResponse)}

GetSeriesByIdAcceptsMany(seriesId, resp) ==
    IF resp.kind # "parsed" THEN [series |-> ZeroSeries, err |-> resp.kind]
    ELSE IF Len(resp.list) = 0
         THEN [series |-> ZeroSeries, err |-> ErrCardinality]
         ELSE [series |-> resp.list[1], err |-> Nil]

\* the pair (series, err) GetSeriesById returns when the provider answers resp
GetSeriesById(seriesId, resp) ==
    IF resp.kind # "parsed" THEN [series |-> ZeroSeries, err |-> resp.kind]
    ELSE IF Len(resp.list) # 1
         THEN [series |-> ZeroSeries, err |-> ErrCardinality]
         ELSE [series |-> resp.list[1], err |-> Nil]

\* a direct call of GetSeriesById
CallGetSeriesById ==
    /\ pc = "idle"
    /\ ret' = GetSeriesById(id, response)
    /\ pc' = "returned"
    /\ UNCHANGED <<err, seriesList, id, response, searchVars, detailVars, listVars>>

(***************************************************************************)
(* Tvdb.SearchSeries                                                       *)
(***************************************************************************)
\* the digit tokens the regex can capture, by value; MaxUint + 1 stands for
\* every token too large for a uint64
Tokens == 1..(MaxUint + 1)

\* strconv.ParseUint(token, 10, 64): on overflow the largest value and a range error
ParseUint(token) ==
    IF token > MaxUint THEN [val |-> MaxUint, err |-> ErrRange]
    ELSE [val |-> token, err |-> Nil]

\* the by-ID answers of the provider inside a search: a single-entry list
\* holds the series asked for
LookupResponses(seriesId) ==
    ErrorResponses \cup
    {ParsedResponse(<<>>),
     ParsedResponse(<<DecodedSeries(seriesId)>>),
     ParsedResponse(<<DecodedSeries(seriesId), DecodedSeries(seriesId)>>)}

\* err.(*xml.SyntaxError)
IsSyntaxErrorNever(e) == FALSE
IsSyntaxErrorOrCardinality(e) == e \in {ErrSyntax, ErrCardinality}
IsSyntaxError(e) == e = ErrSyntax

\* len(seriesList.Series) == maxResults
BoundReachedAtLeast(n, max) == n >= max
BoundReachedAbove(n, max) == n = max + 1
BoundReached(n, max) == n = max

\* the call: the page request, then the regex scan
SearchSeriesCall ==
    /\ pc = "idle"
    /\ \E max \in (-1)..MaxMaxResults :
       \E page \in {[kind |-> ErrGet, groups |-> <<>>],
                    [kind |-> ErrRead, groups |-> <<>>]}
                   \cup {[kind |-> "body", groups |-> g] : g \in SeqsUpTo(Tokens, MaxAnchors)} :
          /\ maxResults' = max
          /\ groups' = page.groups
          /\ groupIdx' = 1
          /\ IF page.kind # "body"
             THEN err' = page.kind /\ pc' = "returned"
             ELSE err' = Nil /\ pc' = IF page.groups = <<>> THEN "returned" ELSE "loop"
    /\ UNCHANGED <<seriesList, doneSeriesIds, lookups, byIdVars, detailVars, listVars>>

\* one pass of the loop over the matches
SearchSeriesLoop ==
    /\ pc = "loop"
    /\ LET parsed == ParseUint(groups[groupIdx])
           seriesId == parsed.val
           next == IF groupIdx = Len(groups) THEN "returned" ELSE "loop"
       IN  IF seriesId \in doneSeriesIds
           THEN \* continue, err as ParseUint left it
                /\ err' = parsed.err
                /\ groupIdx' = groupIdx + 1
                /\ pc' = next
                /\ UNCHANGED <<seriesList, doneSeriesIds, lookups>>
           ELSE IF parsed.err # Nil
           THEN /\ err' = parsed.err
                /\ pc' = "returned"
                /\ UNCHANGED <<seriesList, doneSeriesIds, lookups, groupIdx>>
           ELSE \E resp \in LookupResponses(seriesId) :
                LET got == GetSeriesById(seriesId, resp)
                IN  /\ lookups' = Append(lookups, [pos |-> groupIdx, id |-> seriesId,
                                                   err |-> got.err])
                    /\ IF got.err # Nil
                       THEN IF IsSyntaxError(got.err)
                            THEN /\ err' = Nil
                                 /\ groupIdx' = groupIdx + 1
                                 /\ pc' = next
                                 /\ UNCHANGED <<seriesList, doneSeriesIds>>
                            ELSE /\ err' = got.err
                                 /\ pc' = "returned"
                                 /\ UNCHANGED <<seriesList, doneSeriesIds, groupIdx>>
                       ELSE /\ err' = Nil
                            /\ seriesList' = Append(seriesList, got.series)
                            /\ doneSeriesIds' = doneSeriesIds \cup {seriesId}
                            /\ IF BoundReached(Len(seriesList'), maxResults)
                               THEN pc' = "returned" /\ UNCHANGED groupIdx
                               ELSE pc' = next /\ groupIdx' = groupIdx + 1
    /\ UNCHANGED <<groups, maxResults, byIdVars, detailVars, listVars>>

(***************************************************************************)
(* Series.GetDetail                                                        *)
(***************************************************************************)
\* the episodes of a detail response: the k-th <Episode> element has id k and
\* declares the season number seasons[k]
EpisodeList(seasons) == [k \in 1..Len(seasons) |-> [Id |-> k, SeasonNumber |-> seasons[k]]]

\* what the provider can answer to a detail request: a request that fails, a
\* body that cannot be read, a body one of the two xml.Unmarshal passes
\* rejects, or a body both passes decode, with these episodes
DetailResponses(n) ==
    {[kind |-> k, episodes |-> <<>>] : k \in ErrorKinds}
    \cup {[kind |-> "parsed", episodes |-> EpisodeList(l)] : l \in SeqsUpTo(SeasonNumbers, n)}

AppendFirst(m, episode) ==
    [s \in DOMAIN m \cup {episode.SeasonNumber} |->
        IF s = episode.SeasonNumber
        THEN <<episode>> \o (IF s \in DOMAIN m THEN m[s] ELSE <<>>)
        ELSE m[s]]

\* series.Seasons[episode.SeasonNumber] = append(series.Seasons[episode.SeasonNumber], episode)
AppendEpisode(m, episode) ==
    [s \in DOMAIN m \cup {episode.SeasonNumber} |->
        IF s = episode.SeasonNumber
        THEN Append(IF s \in DOMAIN m THEN m[s] ELSE <<>>, episode)
        ELSE m[s]]

\* for _, episode := range episodeList.Episodes
RECURSIVE Partition(_, _)
Partition(m, episodes) ==
    IF episodes = <<>> THEN m
    ELSE Partition(AppendEpisode(m, Head(episodes)), Tail(episodes))

\* the map the partition starts from
SeasonsToFillCleared(s) == EmptySeasons
SeasonsToFill(s) == IF s.Seasons.isNil THEN EmptySeasons ELSE s.Seasons

\* the receiver after the call and the error returned, when the provider
\* answers resp.  The fields the first pass decodes into the receiver are
\* not part of the model; a failure returns before the partition.
GetDetail(s, resp) ==
    IF resp.kind # "parsed" THEN [series |-> s, err |-> resp.kind]
    ELSE [series |-> [s EXCEPT !.Seasons =
                         [isNil |-> FALSE,
                          m |-> Partition(SeasonsToFill(s).m, resp.episodes)]],
          err |-> Nil]

\* a call of GetDetail on the Series the caller holds
SeriesGetDetailCall ==
    /\ pc = "idle"
    /\ Len(calls) < MaxCalls
    /\ \E resp \in DetailResponses(MaxEpisodes) :
          LET got == GetDetail(series, resp)
          IN  /\ series' = got.series
              /\ err' = got.err
              /\ calls' = Append(calls, resp)
    /\ UNCHANGED <<pc, seriesList, searchVars, byIdVars, listVars>>

(***************************************************************************)
(* SeriesList.GetDetail                                                    *)
(***************************************************************************)
\* err != nil, after the fetch of one entry
FetchFailedNever(e) == FALSE
FetchFailed(e) == e # Nil

\* the call: the loop starts at the first entry
ListGetDetailCall ==
    /\ pc = "idle"
    /\ seriesIndex' = 1
    /\ err' = Nil
    /\ pc' = IF seriesList = <<>> THEN "returned" ELSE "loop"
    /\ UNCHANGED <<seriesList, requests, searchVars, byIdVars, detailVars>>

\* one pass of the loop: the fetch of entry seriesIndex
ListGetDetailLoop ==
    /\ pc = "loop"
    /\ \E resp \in DetailResponses(MaxListEpisodes) :
          LET got == GetDetail(seriesList[seriesIndex], resp)
          IN  /\ seriesList' = [seriesList EXCEPT ![seriesIndex] = got.series]
              /\ requests' = Append(requests, [index |-> seriesIndex, err |-> got.err])
              /\ err' = got.err
              /\ IF FetchFailed(got.err)
                 THEN pc' = "returned" /\ UNCHANGED seriesIndex
                 ELSE /\ seriesIndex' = seriesIndex + 1
                      /\ pc' = IF seriesIndex = Len(seriesList) THEN "returned" ELSE "loop"
    /\ UNCHANGED <<searchVars, byIdVars, detailVars>>

(***************************************************************************)
(* Specifications.                                                         *)
(***************************************************************************)
Quiet ==
    /\ pc = "idle"
    /\ err = Nil
    /\ seriesList = <<>>
    /\ groups = <<>>
    /\ maxResults = 0
    /\ groupIdx = 1
    /\ doneSeriesIds = {}
    /\ lookups = <<>>
    /\ id = 1
    /\ response = ParsedResponse(<<>>)
    /\ ret = [series |-> ZeroSeries, err |-> Nil]
    /\ series = ZeroSeries
    /\ calls = <<>>
    /\ seriesIndex = 1
    /\ requests = <<>>

\* the scrape search resolver
Init == Quiet
Next == SearchSeriesCall \/ SearchSeriesLoop
Spec == Init /\ [][Next]_vars

\* the by-ID lookup, called directly on every identifier and provider answer
InitById ==
    /\ pc = "idle"
    /\ err = Nil
    /\ seriesList = <<>>
    /\ groups = <<>>
    /\ maxResults = 0
    /\ groupIdx = 1
    /\ doneSeriesIds = {}
    /\ lookups = <<>>
    /\ id \in SeriesIds
    /\ response \in ByIdResponses
    /\ ret = [series |-> ZeroSeries, err |-> Nil]
    /\ series = ZeroSeries
    /\ calls = <<>>
    /\ seriesIndex = 1
    /\ requests = <<>>
NextById == CallGetSeriesById
SpecById == InitById /\ [][NextById]_vars

\* the detail fetcher, called up to MaxCalls times on one Series: one decoded
\* from XML (Seasons nil) or one made by NewSeries (Seasons empty)
InitDetail ==
    /\ pc = "idle"
    /\ err = Nil
    /\ seriesList = <<>>
    /\ groups = <<>>
    /\ maxResults = 0
    /\ groupIdx = 1
    /\ doneSeriesIds = {}
    /\ lookups = <<>>
    /\ id = 1
    /\ response = ParsedResponse(<<>>)
    /\ ret = [series |-> ZeroSeries, err |-> Nil]
    /\ series \in {[Id |-> n, Seasons |-> se] : n \in SeriesIds, se \in {NilSeasons, EmptySeasons}}
    /\ calls = <<>>
    /\ seriesIndex = 1
    /\ requests = <<>>
NextDetail == SeriesGetDetailCall
SpecDetail == InitDetail /\ [][NextDetail]_vars

\* the list-level detail fetch, on a list of shows as a search returns them
InitList ==
    /\ pc = "idle"
    /\ err = Nil
    /\ \E n \in 0..MaxSeries : seriesList = [i \in 1..n |-> DecodedSeries(i)]
    /\ groups = <<>>
    /\ maxResults = 0
    /\ groupIdx = 1
    /\ doneSeriesIds = {}
    /\ lookups = <<>>
    /\ id = 1
    /\ response = ParsedResponse(<<>>)
    /\ ret = [series |-> ZeroSeries, err |-> Nil]
    /\ series = ZeroSeries
    /\ calls = <<>>
    /\ seriesIndex = 1
    /\ requests = <<>>
NextList == ListGetDetailCall \/ ListGetDetailLoop
SpecList == InitList /\ [][NextList]_vars

(***************************************************************************)
(* Properties of SearchSeries, stated of Spec.                             *)
(***************************************************************************)
Min(a, b) == IF a < b THEN a ELSE b
Take(s, n) == SubSeq(s, 1, Min(n, Len(s)))
Without(s, x) == SelectSeq(s, LAMBDA y : y # x)

\* s without repetitions, each element at the place of its first occurrence
RECURSIVE Distinct(_)
Distinct(s) ==
    IF s = <<>> THEN <<>>
    ELSE LET d == Distinct(SubSeq(s, 1, Len(s) - 1))
         IN  IF s[Len(s)] \in Range(d) THEN d ELSE Append(d, s[Len(s)])

Returned == pc = "returned"
\* the identifiers of the Series in the result, in result order
ResultIds == [i \in 1..Len(seriesList) |-> seriesList[i].Id]
\* the position of the first anchor of the page that carries identifier x
FirstOccurrence(x) == CHOOSE p \in 1..Len(groups) :
                          groups[p] = x /\ \A q \in 1..(p - 1) : groups[q] # x
\* every token of the page is an identifier (none overflows)
AllTokensParse == \A p \in 1..Len(groups) : ParseUint(groups[p]).err = Nil
\* the identifiers whose lookup failed at least once, and the errors they met
FailedIds == {lookups[k].id : k \in {j \in 1..Len(lookups) : lookups[j].err # Nil}}
ErrorsOf(x) == {lookups[k].err : k \in {j \in 1..Len(lookups) : lookups[j].id = x}}
\* the result the caller's bound allows out of the sequence s
Bounded(s) == IF maxResults >= 1 THEN Take(s, maxResults) ELSE s

\* C1: whenever SearchSeries returns a non-nil error, the list it returns
\* alongside is empty.
C1_NoPartialResultWithError ==
    (Returned /\ err # Nil) => seriesList = <<>>

\* C2: the result holds every scraped identifier at most once, and the
\* resolved shows stand in the order of their identifiers' first occurrence
\* in the page, whatever the outcome of each lookup.
C2_DedupInFirstOccurrenceOrder ==
    /\ \A i, j \in 1..Len(seriesList) : ResultIds[i] = ResultIds[j] => i = j
    /\ \A i, j \in 1..Len(seriesList) :
          i < j => FirstOccurrence(ResultIds[i]) < FirstOccurrence(ResultIds[j])

\* C3: for maxResults >= 1 the result never has more than maxResults entries,
\* and when every identifier of the page resolves, the result is exactly the
\* first min(maxResults, number of distinct identifiers) distinct identifiers
\* of the page, in document order.
C3_ResultBounded ==
    maxResults >= 1 =>
        /\ Len(seriesList) <= maxResults
        /\ (Returned /\ AllTokensParse /\ FailedIds = {})
              => ResultIds = Take(Distinct(groups), maxResults)
C3_Witness ==
    /\ Returned /\ AllTokensParse /\ FailedIds = {}
    /\ maxResults = 1
    /\ Len(Distinct(groups)) = 3
    /\ ResultIds = <<groups[1]>>

C8_AbortOnPropagatedError ==
    /\ \A k \in 1..Len(lookups) :
          /\ lookups[k].pos \in 1..Len(groups)
          /\ groups[lookups[k].pos] = lookups[k].id
          /\ k > 1 => lookups[k - 1].pos < lookups[k].pos
    /\ \A k \in 1..Len(lookups) :
          lookups[k].err \in {ErrGet, ErrRead, ErrCardinality}
          => /\ k = Len(lookups)
             /\ Returned
             /\ err = lookups[k].err
C8_Witness ==
    /\ Returned
    /\ Len(lookups) = 2
    /\ lookups[1].err = Nil
    /\ lookups[2].err = ErrCardinality
    /\ err = ErrCardinality
    /\ lookups[2].pos < Len(groups)
    /\ groups[Len(groups)] \notin {lookups[1].id, lookups[2].id}

\* C9: with maxResults <= 0 the bound never stops the scan: a call that no
\* error aborts has visited every anchor, has looked up every distinct
\* identifier of the page, and returns all that resolved, in lookup order.
C9_NonPositiveBoundIsUnbounded ==
    (maxResults <= 0 /\ Returned /\ err = Nil) =>
        /\ groupIdx = Len(groups) + 1 \/ groups = <<>>
        /\ \A p \in 1..Len(groups) :
              ParseUint(groups[p]).err = Nil
              => \E k \in 1..Len(lookups) : lookups[k].id = groups[p]
        /\ LET resolved == SelectSeq(lookups, LAMBDA l : l.err = Nil)
           IN  ResultIds = [i \in 1..Len(resolved) |-> resolved[i].id]
C9_Witness ==
    /\ maxResults <= 0 /\ Returned /\ err = Nil
    /\ Len(seriesList) = 3
    /\ Len(lookups) = 3

(***************************************************************************)
(* Properties of GetSeriesById, stated of SpecById.                        *)
(***************************************************************************)
\* C5: GetSeriesById succeeds exactly when the request and the parse succeed
\* and the parsed list holds one entry, and then returns that entry; a parsed
\* list of zero or of two or more entries gives the "incorrect number of
\* series" error and the zero Series.
C5_ExactlyOneSeries ==
    Returned =>
        /\ ret.err = Nil <=> (response.kind = "parsed" /\ Len(response.list) = 1)
        /\ ret.err = Nil => ret.series = response.list[1]
        /\ (response.kind = "parsed" /\ Len(response.list) # 1)
              => (ret.err = ErrCardinality /\ ret.series = ZeroSeries)
C5_Witness ==
    /\ Returned
    /\ response.kind = "parsed"
    /\ Len(response.list) = 2
    /\ ret.err = ErrCardinality

(***************************************************************************)
(* Properties of Series.GetDetail, stated of SpecDetail.                   *)
(***************************************************************************)
\* the episode lists of the calls that succeeded, in call order
Merged == SelectSeq(calls, LAMBDA c : c.kind = "parsed")
InSeason(episodes, s) == SelectSeq(episodes, LAMBDA e : e.SeasonNumber = s)
SeasonsOf(episodes) == {episodes[k].SeasonNumber : k \in 1..Len(episodes)}
RECURSIVE Repeat(_, _)
Repeat(s, k) == IF k = 0 THEN <<>> ELSE s \o Repeat(s, k - 1)

\* C6: after one successful GetDetail on a Series whose Seasons was empty,
\* the keys of Seasons are exactly the season numbers the episodes declare,
\* and each season holds exactly the episodes declaring it, once each, in
\* the order received.
C6_DetailMergeIsPartition ==
    Len(Merged) = 1 =>
        LET episodes == Merged[1].episodes
            m == series.Seasons.m
        IN  /\ ~series.Seasons.isNil
            /\ DOMAIN m = SeasonsOf(episodes)
            /\ \A s \in DOMAIN m : m[s] = InSeason(episodes, s)
C6_Witness ==
    /\ Len(Merged) = 1
    /\ Merged[1].episodes = EpisodeList(<<1, 1, 2>>)
    /\ DOMAIN series.Seasons.m = {1, 2}
    /\ Len(series.Seasons.m[1]) = 2
    /\ Len(series.Seasons.m[2]) = 1

\* C10: GetDetail does not clear Seasons: after k successful calls with the
\* same response each season holds its episodes k times over, the response
\* order repeated k times, and every stored episode sits under the key equal
\* to its own SeasonNumber.
C10_RepeatedDetailAccumulates ==
    /\ \A s \in DOMAIN series.Seasons.m :
          \A j \in 1..Len(series.Seasons.m[s]) : series.Seasons.m[s][j].SeasonNumber = s
    /\ (Len(Merged) >= 1 /\ \A k \in 1..Len(Merged) : Merged[k] = Merged[1]) =>
          LET episodes == Merged[1].episodes
              m == series.Seasons.m
          IN  /\ DOMAIN m = SeasonsOf(episodes)
              /\ \A s \in DOMAIN m : m[s] = Repeat(InSeason(episodes, s), Len(Merged))
C10_Witness ==
    /\ Len(Merged) = 2
    /\ Merged[1] = Merged[2]
    /\ Merged[1].episodes = EpisodeList(<<1, 2, 1>>)
    /\ Len(series.Seasons.m[1]) = 4
    /\ Len(series.Seasons.m[2]) = 2

(***************************************************************************)
(* Properties of SeriesList.GetDetail, stated of SpecList.                 *)
(***************************************************************************)
\* C7: the entries are fetched one at a time in list order; a fetch that
\* fails is the last request issued, its error is returned, and the entries
\* after it keep their unpopulated Seasons; when no fetch fails every entry
\* is fetched and no error is returned.
C7_ListDetailShortCircuits ==
    /\ \A k \in 1..Len(requests) : requests[k].index = k
    /\ Len(requests) <= Len(seriesList)
    /\ \A k \in 1..Len(requests) :
          requests[k].err # Nil
          => (k = Len(requests) /\ Returned /\ err = requests[k].err)
    /\ \A j \in 1..Len(seriesList) :
          j > Len(requests) => seriesList[j].Seasons = NilSeasons
    /\ (Returned /\ \A k \in 1..Len(requests) : requests[k].err = Nil)
          => (Len(requests) = Len(seriesList) /\ err = Nil)
C7_Witness ==
    /\ Returned
    /\ Len(seriesList) = 3
    /\ Len(requests) = 2
    /\ requests[1].err = Nil
    /\ requests[2].err = ErrGet
    /\ err = ErrGet
    /\ DOMAIN seriesList[1].Seasons.m # {}
    /\ seriesList[3].Seasons = NilSeasons

====
